---- MODULE Spec2Model ----
(***************************************************************************)
(* A model of the dotenv package (src/pkg/dotenv.go): Parse's line loop,   *)
(* extractValue, parseEscape, substituteVariables and Read.                *)
(*                                                                         *)
(* A Go string is modelled as a sequence of one-character strings; the     *)
(* control characters that parseEscape produces are "\n", "\r", "\t",      *)
(* "\f" and the atom "BS" (backspace, which has no TLA+ escape).           *)
(***************************************************************************)
EXTENDS Integers, Sequences, FiniteSets, TLC

VARIABLES
    envVars,        \* Parse: the map being built (a function from keys to values)
    status,         \* Parse: "running", "done", an error kind, or "panic"
    ret,            \* Parse: the returned mapping (NoReturn until Parse returns)
    line,           \* Parse: scanner.Text() of the line scanned last
    nread,          \* Parse: how many lines scanner.Scan() has yielded
    inMulti,        \* extractValue: inside the multi-line scanner loop
    prefix,         \* extractValue: the triple marker that opened the value
    multilineVal,   \* extractValue: the strings.Builder of the multi-line value
    key,            \* Parse: the key whose value is being extracted
    escIn,          \* parseEscape call: its argument
    escOut,         \* parseEscape call: its result (NoReturn before the call)
    files,          \* Read: the filenames argument, each with what the disk holds
    fileIdx,        \* Read: index of the filename the loop is at
    readEnv,        \* Read: the aggregated map
    readStatus,     \* Read: "running", "done" or the error returned
    readRet,        \* Read: the returned mapping
    opened,         \* Read: indices of the files os.Open was called on
    parsed          \* Read: indices of the files Parse was called on

parseVars == <<envVars, status, ret, line, nread, inMulti, prefix, multilineVal, key>>
escVars == <<escIn, escOut>>
readVars == <<files, fileIdx, readEnv, readStatus, readRet, opened, parsed>>
vars == <<parseVars, escVars, readVars>>

----------------------------------------------------------------------------
(* Characters and Go's strings package *)

BSL == "\\"
DQ == "\""
SQ == "'"
NL == "\n"
BS == "BS"

Upper == {"A", "B", "C", "K", "Z"}
Lower == {"a", "b", "e", "f", "n", "o", "p", "r", "t", "x"}
Digit == {"0", "1", "2", "9"}

\* unicode.IsSpace on the characters of the model, as strings.TrimSpace uses it
IsSpace(c) == c \in {" ", "\t", "\n", "\r", "\f"}

HasPrefix(s, p) == Len(s) >= Len(p) /\ SubSeq(s, 1, Len(p)) = p

HasSuffix(s, p) == Len(s) >= Len(p) /\ SubSeq(s, Len(s) - Len(p) + 1, Len(s)) = p

TrimPrefix(s, p) == IF HasPrefix(s, p) THEN SubSeq(s, Len(p) + 1, Len(s)) ELSE s

TrimSuffix(s, p) == IF HasSuffix(s, p) THEN SubSeq(s, 1, Len(s) - Len(p)) ELSE s

RECURSIVE TrimLeft(_)
TrimLeft(s) == IF s # <<>> /\ IsSpace(Head(s)) THEN TrimLeft(Tail(s)) ELSE s

RECURSIVE TrimRight(_)
TrimRight(s) ==
    IF s # <<>> /\ IsSpace(s[Len(s)]) THEN TrimRight(SubSeq(s, 1, Len(s) - 1)) ELSE s

TrimSpace(s) == TrimRight(TrimLeft(s))

\* strings.Index for a one-character separator: 0 when absent
RECURSIVE IndexFrom(_, _, _)
IndexFrom(s, c, i) ==
    IF i > Len(s) THEN 0 ELSE IF s[i] = c THEN i ELSE IndexFrom(s, c, i + 1)

Index(s, c) == IndexFrom(s, c, 1)

\* F applied to the value of v, with v evaluated once (a Go local variable)
WithValue(v, F(_)) == CHOOSE r \in {F(x) : x \in {v}} : TRUE

----------------------------------------------------------------------------
(* The regular expressions, dotenv.go lines 24-29 *)

\* keyRegex.MatchString: ^[a-zA-Z_]+[a-zA-Z0-9_]* has no end anchor, so it
\* matches as soon as the first character is a letter or an underscore.
keyRegexMatch(k) == k # <<>> /\ k[1] \in Upper \cup Lower \cup {"_"}

HasAt(s, i, c) == i >= 1 /\ i <= Len(s) /\ s[i] = c

\* [A-Z0-9_]
IsNameChar(c) == c \in Upper \cup Digit \cup {"_"}

\* substituteVarRegex matches at i: (\\)?(\$) ...
SubstMatchStarts(s, i) == HasAt(s, i, "$") \/ (HasAt(s, i, BSL) /\ HasAt(s, i + 1, "$"))

RECURSIVE AfterName(_, _)
AfterName(s, p) == IF p <= Len(s) /\ IsNameChar(s[p]) THEN AfterName(s, p + 1) ELSE p

\* The index after the match of substituteVarRegex that starts at i:
\* (\\)?(\$)(\()?\{?([A-Z0-9_]+)?\}? , every optional part greedy.
SubstMatchEnd(s, i) ==
    LET afterDollar == IF HasAt(s, i, BSL) THEN i + 2 ELSE i + 1
        afterParen == IF HasAt(s, afterDollar, "(") THEN afterDollar + 1 ELSE afterDollar
        afterBrace == IF HasAt(s, afterParen, "{") THEN afterParen + 1 ELSE afterParen
        afterName == AfterName(s, afterBrace)
    IN  IF HasAt(s, afterName, "}") THEN afterName + 1 ELSE afterName

----------------------------------------------------------------------------
(* parseEscape, dotenv.go lines 178-197 *)

\* the switch of the replacement function, for the match \c
EscapeRepl(c) ==
    CASE c = "n" -> <<NL>>
      [] c = "r" -> <<"\r">>
      [] c = "t" -> <<"\t">>
      [] c = "f" -> <<"\f">>
      [] c = "b" -> <<BS>>
      [] OTHER -> <<BSL, c>>

\* escapeRegex.ReplaceAllStringFunc: \\. , where . matches no newline
RECURSIVE EscapePass(_, _)
EscapePass(s, i) ==
    IF i > Len(s) THEN <<>>
    ELSE IF s[i] = BSL /\ i < Len(s) /\ s[i + 1] # NL
         THEN EscapeRepl(s[i + 1]) \o EscapePass(s, i + 2)
         ELSE <<s[i]>> \o EscapePass(s, i + 1)

\* unescapeRegex.ReplaceAllString(out, "$1"): \\([^$])
RECURSIVE UnescapePass(_, _)
UnescapePass(s, i) ==
    IF i > Len(s) THEN <<>>
    ELSE IF s[i] = BSL /\ i < Len(s) /\ s[i + 1] # "$"
         THEN <<s[i + 1]>> \o UnescapePass(s, i + 2)
         ELSE <<s[i]>> \o UnescapePass(s, i + 1)

RECURSIVE UnescapeAnyPass(_, _)
UnescapeAnyPass(s, i) ==
    IF i > Len(s) THEN <<>>
    ELSE IF s[i] = BSL /\ i < Len(s)
         THEN <<s[i + 1]>> \o UnescapeAnyPass(s, i + 2)
         ELSE <<s[i]>> \o UnescapeAnyPass(s, i + 1)

parseEscape_UnescapesDollar(str) == UnescapeAnyPass(EscapePass(str, 1), 1)

parseEscape(str) == UnescapePass(EscapePass(str, 1), 1)

----------------------------------------------------------------------------
(* substituteVariables, dotenv.go lines 199-206 *)

\* envVars[name] with the comma-ok test of the replacement function
Lookup(env, name) == IF name \in DOMAIN env THEN env[name] ELSE <<>>

MatchName_FromBrace(match) == SubSeq(match, 2, Len(match) - 1)

\* line 201: match[2:len(match)-1]
MatchName(match) == SubSeq(match, 3, Len(match) - 1)

\* substituteVarRegex.ReplaceAllStringFunc from index i on.  The replacement
\* function slices match[2:len(match)-1], which panics (slice bounds out of
\* range) when the match is shorter than three bytes.
RECURSIVE SubstFrom(_, _, _)
SubstFrom(s, i, env) ==
    IF i > Len(s) THEN [panic |-> FALSE, str |-> <<>>]
    ELSE IF SubstMatchStarts(s, i)
         THEN LET e == SubstMatchEnd(s, i)
                  match == SubSeq(s, i, e - 1)
              IN  IF Len(match) < 3 THEN [panic |-> TRUE, str |-> <<>>]
                  ELSE LET rest == SubstFrom(s, e, env)
                           name == MatchName(match)
                       IN  [panic |-> rest.panic,
                            str |-> IF rest.panic THEN <<>> ELSE Lookup(env, name) \o rest.str]
         ELSE LET rest == SubstFrom(s, i + 1, env)
              IN  [panic |-> rest.panic,
                   str |-> IF rest.panic THEN <<>> ELSE <<s[i]>> \o rest.str]

substituteVariables(str, env) == SubstFrom(str, 1, env)

----------------------------------------------------------------------------
(* extractValue, dotenv.go lines 109-176 *)

TripleDQ == <<DQ, DQ, DQ>>
TripleSQ == <<SQ, SQ, SQ>>

isMultiLine(val) == HasPrefix(val, TripleDQ) \/ HasPrefix(val, TripleSQ)

Ok(v) == [err |-> "nil", val |-> v]
Fail(e) == [err |-> e, val |-> <<>>]

\* parseEscape(substituteVariables(s, env)), a panic of the inner call propagating
SubstThenEscape(s, env) ==
    LET sub == substituteVariables(s, env)
    IN  IF sub.panic THEN Fail("panic") ELSE Ok(parseEscape(sub.str))

RECURSIVE UnescapedIndexFrom(_, _, _)
UnescapedIndexFrom(s, c, i) ==
    IF i > Len(s) THEN 0
    ELSE IF s[i] = c /\ ~HasAt(s, i - 1, BSL) THEN i
    ELSE UnescapedIndexFrom(s, c, i + 1)

BeforeHash_SkipsEscaped(val) ==
    LET i == UnescapedIndexFrom(val, "#", 1)
    IN  IF i = 0 THEN val ELSE SubSeq(val, 1, i - 1)

\* strings.Split(val, "#")[0]
BeforeHash(val) ==
    LET i == Index(val, "#") IN IF i = 0 THEN val ELSE SubSeq(val, 1, i - 1)

\* line 110-112: the value starts with no quote
extractUnquoted(val, env) == SubstThenEscape(TrimSpace(BeforeHash(val)), env)

\* lines 151-155: the loop over i (j = i + 1 here), which reassigns val and
\* remaining at a quote not preceded by a backslash and has no break
RECURSIVE QuoteLoop(_, _, _, _)
QuoteLoop(val, remaining, q, j) ==
    IF j > Len(val) THEN [val |-> val, remaining |-> remaining]
    ELSE IF val[j] = q /\ val[j - 1] # BSL
         THEN QuoteLoop(SubSeq(val, 2, j - 1),
                        TrimSpace(SubSeq(val, j + 1, Len(val))), q, j + 1)
         ELSE QuoteLoop(val, remaining, q, j + 1)

extractQuoted_DecodesBoth(val, env) ==
    LET q == IF HasPrefix(val, <<SQ>>) THEN SQ ELSE DQ
        lp == QuoteLoop(val, <<>>, q, 2)
    IN  IF HasPrefix(lp.val, <<q>>) THEN Fail("unterminatedQuote")
        ELSE LET r == SubstThenEscape(lp.val, env)
             IN  IF r.err # "nil" THEN r
                 ELSE IF TrimSpace(lp.remaining) # <<>> /\ ~HasPrefix(lp.remaining, <<"#">>)
                      THEN Fail("unexpectedCharacters")
                      ELSE r

\* lines 142-171: a value that starts with one quote
extractQuoted(val, env) ==
    LET q == IF HasPrefix(val, <<SQ>>) THEN SQ ELSE DQ
        lp == QuoteLoop(val, <<>>, q, 2)
    IN  IF HasPrefix(lp.val, <<q>>) THEN Fail("unterminatedQuote")
        ELSE LET r == IF q = DQ THEN SubstThenEscape(lp.val, env) ELSE Ok(lp.val)
             IN  IF r.err # "nil" THEN r
                 ELSE IF TrimSpace(lp.remaining) # <<>> /\ ~HasPrefix(lp.remaining, <<"#">>)
                      THEN Fail("unexpectedCharacters")
                      ELSE r

\* extractValue for a value that opens no multi-line block
extractValue(val, env) ==
    IF ~HasPrefix(val, <<SQ>>) /\ ~HasPrefix(val, <<DQ>>)
    THEN extractUnquoted(val, env)
    ELSE extractQuoted(val, env)

----------------------------------------------------------------------------
(* The line source: the lines scanner.Scan() may yield *)

MaxLines == 3
MaxTok == 2

RECURSIVE Texts(_, _)
Texts(T, n) ==
    IF n = 0 THEN {<<>>}
    ELSE LET R == Texts(T, n - 1) IN R \cup {r \o t : r \in R, t \in T}

ExportPrefix == <<"e", "x", "p", "o", "r", "t", " ">>

RefA == <<"$", "{", "A", "}">>

KeyTexts ==
    {<<>>, <<"A">>, <<" ", "A", " ">>, <<"1", "A">>, <<"A", "-">>, <<"_">>, <<"a", "1">>, <<"-">>}

KeyLines == {e \o k \o <<"=", "1">> : e \in {<<>>, ExportPrefix}, k \in KeyTexts}

ARhs == {<<"1">>, <<"2">>, <<SQ, BSL, "n", SQ>>, <<SQ>> \o RefA \o <<SQ>>, <<BSL>>}

ALines == {<<"A", "=">> \o r : r \in ARhs}

RhsTokens ==
    {<<"1">>, <<" ">>, <<"#">>, <<" ", "#">>, <<BSL, "#">>, <<BSL>>, <<"n">>, <<"$">>, RefA, <<SQ>>, <<DQ>>}

BLines == {<<"B", "=">> \o r : r \in Texts(RhsTokens, MaxTok)}

InnerTokens == {<<"1">>, <<"$">>, <<BSL>>, <<"n">>, RefA}

Trails == {<<" ", "#", "1">>, <<"1">>, <<"#">>}

QuotedLines ==
    {<<"B", "=", q>> \o t \o <<q>> : q \in {SQ, DQ}, t \in Texts(InnerTokens, MaxTok)}
    \cup {<<"B", "=", q>> \o t \o <<q>> \o tr : q \in {SQ, DQ}, t \in {<<>>, <<"1">>}, tr \in Trails}

PlainTokens == {<<"a">>, TripleDQ, TripleSQ, <<"$">>, <<BSL, "n">>, RefA}

PlainLines == Texts(PlainTokens, MaxTok) \cup {<<" ">>, <<"#", "a">>, <<" ", "#">>}

OpenLines == {<<"B", "=">> \o m \o t : m \in {TripleDQ, TripleSQ}, t \in {<<>>, <<"a">>}}

Lines == KeyLines \cup ALines \cup BLines \cup QuotedLines \cup PlainLines \cup OpenLines

----------------------------------------------------------------------------
(* Parse, dotenv.go lines 61-91 *)

NoReturn == [returned |-> FALSE, isNil |-> TRUE, map |-> <<>>]
ReturnNil == [returned |-> TRUE, isNil |-> TRUE, map |-> <<>>]
ReturnMap(m) == [returned |-> TRUE, isNil |-> FALSE, map |-> m]

\* envVars[key] = val
Put(m, k, v) == [x \in DOMAIN m \cup {k} |-> IF x = k THEN v ELSE m[x]]

\* line 68: the comment and blank test
IsSkipped(l) == HasPrefix(l, <<"#">>) \/ Len(TrimSpace(l)) = 0

\* lines 72-73 and 79: the line split at its first "="
SplitLine(l) ==
    LET s == TrimPrefix(l, ExportPrefix)
        eq == Index(s, "=")
    IN  [n |-> IF eq = 0 THEN 1 ELSE 2,
         key |-> TrimSpace(SubSeq(s, 1, eq - 1)),
         val |-> SubSeq(s, eq + 1, Len(s))]

\* The locals of a Parse call: line 62 and the state of the scanner loops
ParseStart ==
    [envVars |-> <<>>, status |-> "running", ret |-> NoReturn, inMulti |-> FALSE,
     prefix |-> <<>>, multilineVal |-> <<>>, key |-> <<>>]

\* A return of Parse with an error: (nil, err); a panic returns nothing
Abort(st, e) ==
    [st EXCEPT !.status = e, !.ret = IF e = "panic" THEN NoReturn ELSE ReturnNil]

\* One iteration of the loop of line 65, up to the multi-line scanner loop
ParseLine(st, l) ==
    IF IsSkipped(l) THEN st
    ELSE LET kv == SplitLine(l)
         IN  IF kv.n # 2 THEN Abort(st, "inValidLine")
             ELSE IF ~keyRegexMatch(kv.key) THEN Abort(st, "inValidKey")
             ELSE IF isMultiLine(kv.val)
             THEN [st EXCEPT !.key = kv.key, !.inMulti = TRUE, !.multilineVal = <<>>,
                             !.prefix = IF HasPrefix(kv.val, TripleDQ)
                                        THEN TripleDQ ELSE TripleSQ]
             ELSE LET r == extractValue(kv.val, st.envVars)
                  IN  IF r.err = "nil"
                      THEN [st EXCEPT !.key = kv.key,
                                      !.envVars = Put(st.envVars, kv.key, r.val)]
                      ELSE Abort([st EXCEPT !.key = kv.key], r.err)

\* One iteration of the scanner loop of lines 125-139
MultiLine(st, l) ==
    IF HasSuffix(l, st.prefix)
    THEN [st EXCEPT !.envVars = Put(st.envVars, st.key, TrimSuffix(st.multilineVal, <<NL>>)),
                    !.inMulti = FALSE, !.prefix = <<>>, !.multilineVal = <<>>]
    ELSE LET l2 == TrimSuffix(TrimSuffix(l, st.prefix), st.prefix)
             r == IF st.prefix = TripleDQ THEN SubstThenEscape(l2, st.envVars)
                  ELSE Ok(parseEscape(l2))
         IN  IF r.err = "nil"
             THEN [st EXCEPT !.multilineVal = st.multilineVal \o r.val \o <<NL>>]
             ELSE Abort(st, r.err)

\* scanner.Scan() returns false: line 141 inside a multi-line block, line 90 otherwise
EndOfInput(st) ==
    IF st.inMulti THEN Abort(st, "unterminatedMultiLine")
    ELSE [st EXCEPT !.status = "done", !.ret = ReturnMap(st.envVars)]

\* Parse on a whole reader, from line i of its lines
RECURSIVE ParseFrom(_, _, _)
ParseFrom(st, lines, i) ==
    IF st.status # "running" THEN st
    ELSE IF i > Len(lines) THEN EndOfInput(st)
    ELSE WithValue(IF st.inMulti THEN MultiLine(st, lines[i]) ELSE ParseLine(st, lines[i]),
                   LAMBDA next : ParseFrom(next, lines, i + 1))

Parse(lines) == ParseFrom(ParseStart, lines, 1)

Locals ==
    [envVars |-> envVars, status |-> status, ret |-> ret, inMulti |-> inMulti,
     prefix |-> prefix, multilineVal |-> multilineVal, key |-> key]

SetLocals(st) ==
    /\ envVars' = st.envVars
    /\ status' = st.status
    /\ ret' = st.ret
    /\ inMulti' = st.inMulti
    /\ prefix' = st.prefix
    /\ multilineVal' = st.multilineVal
    /\ key' = st.key

ScanLine ==
    /\ status = "running" /\ ~inMulti /\ nread < MaxLines
    /\ \E l \in Lines :
        /\ line' = l
        /\ nread' = nread + 1
        /\ \E st \in {ParseLine(Locals, l)} : SetLocals(st)
    /\ UNCHANGED <<escVars, readVars>>

ScanMultiLine ==
    /\ status = "running" /\ inMulti /\ nread < MaxLines
    /\ \E l \in Lines :
        /\ line' = l
        /\ nread' = nread + 1
        /\ \E st \in {MultiLine(Locals, l)} : SetLocals(st)
    /\ UNCHANGED <<escVars, readVars>>

ScanEOF ==
    /\ status = "running"
    /\ \E st \in {EndOfInput(Locals)} : SetLocals(st)
    /\ UNCHANGED <<line, nread, escVars, readVars>>

ParseInit ==
    /\ envVars = ParseStart.envVars
    /\ status = ParseStart.status
    /\ ret = ParseStart.ret
    /\ inMulti = ParseStart.inMulti
    /\ prefix = ParseStart.prefix
    /\ multilineVal = ParseStart.multilineVal
    /\ key = ParseStart.key
    /\ line = <<>>
    /\ nread = 0

EscIdle == escIn = <<>> /\ escOut = <<>>

ReadIdle ==
    /\ files = <<>> /\ fileIdx = 0 /\ readEnv = <<>> /\ readStatus = "idle"
    /\ readRet = NoReturn /\ opened = {} /\ parsed = {}

Init == ParseInit /\ EscIdle /\ ReadIdle

Next == ScanLine \/ ScanMultiLine \/ ScanEOF

Spec == Init /\ [][Next]_vars

----------------------------------------------------------------------------
(* A call of parseEscape on its own *)

MaxEscLen == 5

EscChars == {BSL, "n", "b", "$", DQ, NL}

RECURSIVE Strings(_, _)
Strings(C, n) ==
    IF n = 0 THEN {<<>>}
    ELSE LET R == Strings(C, n - 1) IN R \cup {r \o <<c>> : r \in R, c \in C}

EscInit == escIn \in Strings(EscChars, MaxEscLen) /\ escOut = <<>>

CallParseEscape ==
    /\ escOut = <<>>
    /\ escOut' = <<parseEscape(escIn)>>
    /\ UNCHANGED <<escIn, parseVars, readVars>>

InitEscape == EscInit /\ ParseInit /\ ReadIdle

NextEscape == CallParseEscape

SpecEscape == InitEscape /\ [][NextEscape]_vars

----------------------------------------------------------------------------
(* Read, dotenv.go lines 32-58 *)

MaxFiles == 2

\* path.Ext: the suffix that starts at the last dot of the last path element
RECURSIVE LastDot(_, _)
LastDot(name, i) ==
    IF i < 1 \/ name[i] = "/" THEN 0
    ELSE IF name[i] = "." THEN i ELSE LastDot(name, i - 1)

Ext(name) ==
    LET d == LastDot(name, Len(name))
    IN  IF d = 0 THEN <<>> ELSE SubSeq(name, d, Len(name))

DotEnv == <<".", "e", "n", "v">>

FileNames ==
    {<<"a">> \o DotEnv, DotEnv, <<"a", ".", "x">>, <<"a">>, DotEnv \o <<"/", "a">>}

FileContents ==
    {<<>>,
     << <<"A", "=", "1">> >>,
     << <<"B", "=">> \o RefA >>,
     << <<"B", "=", "2">>, <<"A", "=", "2">> >>,
     << <<"a">> >>,
     << <<"B", "=", "$">> >>}

\* What a filename of the call stands for on disk: whether os.Open succeeds, and the lines
FileArgs == [name : FileNames, exists : BOOLEAN, content : FileContents]

\* for key, val := range vars { envVars[key] = val }
Merge(m, fileVars) ==
    [x \in DOMAIN m \cup DOMAIN fileVars |-> IF x \in DOMAIN fileVars THEN fileVars[x] ELSE m[x]]

ReadLocals ==
    [fileIdx |-> fileIdx, readEnv |-> readEnv, readStatus |-> readStatus,
     readRet |-> readRet, opened |-> opened, parsed |-> parsed]

ReadFail(rd, e) ==
    [rd EXCEPT !.readStatus = e, !.readRet = IF e = "panic" THEN NoReturn ELSE ReturnNil]

ReadOne_OpensFirst(rd, f, i) ==
    LET o == [rd EXCEPT !.fileIdx = i, !.opened = rd.opened \cup {i}]
    IN  IF ~f.exists THEN ReadFail(o, "openError")
        ELSE IF Ext(f.name) # DotEnv THEN ReadFail(o, "inValidFileExtension")
        ELSE LET q == [o EXCEPT !.parsed = o.parsed \cup {i}]
             IN  WithValue(Parse(f.content),
                           LAMBDA p : IF p.status # "done" THEN ReadFail(q, p.status)
                                      ELSE [q EXCEPT !.readEnv = Merge(q.readEnv, p.ret.map)])

\* One iteration of the loop of lines 35-55 for the file f at index i
ReadOne(rd, f, i) ==
    IF Ext(f.name) # DotEnv THEN ReadFail([rd EXCEPT !.fileIdx = i], "inValidFileExtension")
    ELSE LET o == [rd EXCEPT !.fileIdx = i, !.opened = rd.opened \cup {i}]
         IN  IF ~f.exists THEN ReadFail(o, "openError")
             ELSE LET q == [o EXCEPT !.parsed = o.parsed \cup {i}]
                  IN  WithValue(Parse(f.content),
                                LAMBDA p : IF p.status # "done" THEN ReadFail(q, p.status)
                                           ELSE [q EXCEPT !.readEnv = Merge(q.readEnv, p.ret.map)])

SetReadLocals(rd) ==
    /\ fileIdx' = rd.fileIdx
    /\ readEnv' = rd.readEnv
    /\ readStatus' = rd.readStatus
    /\ readRet' = rd.readRet
    /\ opened' = rd.opened
    /\ parsed' = rd.parsed

ReadInit ==
    /\ files \in UNION {[1..n -> FileArgs] : n \in 0..MaxFiles}
    /\ fileIdx = 0
    /\ readEnv = <<>>
    /\ readStatus = "running"
    /\ readRet = NoReturn
    /\ opened = {}
    /\ parsed = {}

ReadFile ==
    /\ readStatus = "running"
    /\ fileIdx < Len(files)
    /\ \E rd \in {ReadOne(ReadLocals, files[fileIdx + 1], fileIdx + 1)} : SetReadLocals(rd)
    /\ UNCHANGED <<files, parseVars, escVars>>

\* line 57
ReadReturn ==
    /\ readStatus = "running"
    /\ fileIdx = Len(files)
    /\ readStatus' = "done"
    /\ readRet' = ReturnMap(readEnv)
    /\ UNCHANGED <<files, fileIdx, readEnv, opened, parsed, parseVars, escVars>>

NextRead == ReadFile \/ ReadReturn

InitRead == ReadInit /\ ParseInit /\ EscIdle

SpecRead == InitRead /\ [][NextRead]_vars

----------------------------------------------------------------------------
(* The vocabulary of the properties, stated on the text of a line and not  *)
(* through the operators of the model above                                *)

Letters == Upper \cup Lower

\* [A-Za-z_][A-Za-z0-9_]* in full
IsIdent(k) ==
    /\ k # <<>>
    /\ k[1] \in Letters \cup {"_"}
    /\ \A i \in 1..Len(k) : k[i] \in Letters \cup Digit \cup {"_"}

White == {" ", "\t", "\n", "\r", "\f"}

\* s without its leading and trailing whitespace
Trimmed(s) ==
    LET black == {i \in 1..Len(s) : s[i] \notin White}
    IN  IF black = {} THEN <<>>
        ELSE SubSeq(s, CHOOSE i \in black : \A j \in black : i <= j,
                       CHOOSE i \in black : \A j \in black : i >= j)

Positions(s, c) == {i \in 1..Len(s) : s[i] = c}

First(S) == CHOOSE i \in S : \A j \in S : i <= j

\* a line that is neither blank nor a comment
IsEntry(l) == Trimmed(l) # <<>> /\ l[1] # "#"

WithoutExport(l) ==
    IF Len(l) >= 7 /\ SubSeq(l, 1, 7) = <<"e", "x", "p", "o", "r", "t", " ">>
    THEN SubSeq(l, 8, Len(l)) ELSE l

\* a non-blank, non-comment line that contains "="
IsAssignment(l) == IsEntry(l) /\ Positions(WithoutExport(l), "=") # {}

\* the whitespace-trimmed text left of the first "="
KeyOf(l) ==
    CHOOSE k \in {Trimmed(lhs) : lhs \in {SubSeq(w, 1, First(Positions(w, "=")) - 1) :
                                          w \in {WithoutExport(l)}}} : TRUE

\* the text right of the first "="
RhsOf(l) ==
    CHOOSE r \in {SubSeq(w, First(Positions(w, "=")) + 1, Len(w)) : w \in {WithoutExport(l)}} : TRUE

Unquoted(r) == r = <<>> \/ r[1] \notin {SQ, DQ}

TripleQuoted(r) == Len(r) >= 3 /\ r[1] \in {SQ, DQ} /\ r[2] = r[1] /\ r[3] = r[1]

\* a right-hand side that opens with one quote
Quoted(r) == r # <<>> /\ r[1] \in {SQ, DQ} /\ ~TripleQuoted(r)

\* the later quotes of the opening kind that no backslash precedes
Closers(r) == {j \in 2..Len(r) : r[j] = r[1] /\ r[j - 1] # BSL}

Between(r) == SubSeq(r, 2, First(Closers(r)) - 1)

\* the text before the first "#", escaped or not
UpToHash(r) ==
    IF Positions(r, "#") = {} THEN r ELSE SubSeq(r, 1, First(Positions(r, "#")) - 1)

\* the text before the first "#" that no backslash precedes
UpToUnescapedHash(r) ==
    LET hs == {i \in Positions(r, "#") : i = 1 \/ r[i - 1] # BSL}
    IN  IF hs = {} THEN r ELSE SubSeq(r, 1, First(hs) - 1)

\* the text substitution and escape decoding run on, for an unquoted or a
\* closed double-quoted right-hand side
ValueText(r) ==
    IF Unquoted(r) THEN CHOOSE t \in {Trimmed(head) : head \in {UpToHash(r)}} : TRUE
    ELSE Between(r)

Substitutes(r) == Unquoted(r) \/ (Quoted(r) /\ r[1] = DQ /\ Closers(r) # {})

\* t[i..e] is a reference ${NAME}, NAME in [A-Z0-9_]+
IsRef(t, i, e) ==
    /\ i >= 1 /\ e <= Len(t) /\ e >= i + 3
    /\ t[i] = "$" /\ t[i + 1] = "{" /\ t[e] = "}"
    /\ \A j \in (i + 2)..(e - 1) : t[j] \in Upper \cup Digit \cup {"_"}

RefName(t, i, e) == SubSeq(t, i + 2, e - 1)

\* the references of t that no backslash precedes, as <<first, last>> indices
PlainRefs(t) ==
    {p \in (1..Len(t)) \X (1..Len(t)) : IsRef(t, p[1], p[2]) /\ (p[1] = 1 \/ t[p[1] - 1] # BSL)}

\* the references of t that a backslash precedes
EscapedRefs(t) ==
    {p \in (1..Len(t)) \X (1..Len(t)) : IsRef(t, p[1], p[2]) /\ p[1] > 1 /\ t[p[1] - 1] = BSL}

ValueOf(env, name) == IF \E k \in DOMAIN env : k = name THEN env[name] ELSE <<>>

Control == ("n" :> "\n") @@ ("r" :> "\r") @@ ("t" :> "\t") @@ ("f" :> "\f") @@ ("b" :> BS)

\* s decoded in one pass from the left, two characters at a time after a
\* backslash; keep is the set of characters a backslash stays in front of
RECURSIVE DecodedKeeping(_, _)
DecodedKeeping(s, keep) ==
    IF s = <<>> THEN <<>>
    ELSE IF Head(s) = BSL /\ Len(s) >= 2 /\ s[2] \notin keep
         THEN <<IF s[2] \in DOMAIN Control THEN Control[s[2]] ELSE s[2]>>
              \o DecodedKeeping(SubSeq(s, 3, Len(s)), keep)
         ELSE <<Head(s)>> \o DecodedKeeping(Tail(s), keep)

\* a step of the line loop outside a multi-line block, and one inside it
LineStep == status = "running" /\ ~inMulti /\ nread' = nread + 1
BlockStep == status = "running" /\ inMulti /\ nread' = nread + 1

\* the step stored the value of the line it scanned
Stored == status' = "running" /\ ~inMulti'

ErrorKinds ==
    {"inValidLine", "inValidKey", "unterminatedMultiLine", "unterminatedQuote",
     "unexpectedCharacters"}

----------------------------------------------------------------------------
(* The properties *)

\* C1: when a line with an unquoted or double-quoted value is stored, every
\* reference ${NAME} in its value text that no backslash precedes has been
\* replaced by the value envVars held for NAME before the line (the one the most
\* recent earlier accepted line assigned), or by the empty string when it held
\* none; and the line changes the value of no other key.
C1_ReferenceReplaced ==
    [][(LineStep /\ Stored /\ IsAssignment(line'))
        => \A k \in {KeyOf(line')}, r \in {RhsOf(line')} :
            /\ k \in DOMAIN envVars'
            /\ \A x \in DOMAIN envVars \ {k} : x \in DOMAIN envVars' /\ envVars'[x] = envVars[x]
            /\ Substitutes(r)
               => \A t \in {ValueText(r)} : \A p \in PlainRefs(t) :
                    \A before \in {SubSeq(t, 1, p[1] - 1)}, after \in {SubSeq(t, p[2] + 1, Len(t))} :
                        envVars'[k] =
                            parseEscape(substituteVariables(before, envVars).str
                                        \o ValueOf(envVars, RefName(t, p[1], p[2]))
                                        \o substituteVariables(after, envVars).str)
      ]_vars

C1_Witness ==
    /\ nread = 3
    /\ line = <<"B", "=">> \o RefA \o RefA
    /\ status = "running"
    /\ <<"A">> \in DOMAIN envVars /\ envVars[<<"A">>] = <<"2">>
    /\ <<"B">> \in DOMAIN envVars /\ envVars[<<"B">>] = <<"2", "2">>

\* C2: the line that ends with the marker closes the block, and the value stored
\* is the decoded earlier lines joined by newline with the decoded text that
\* precedes the marker on the closing line appended, less one trailing newline.
C2_ClosingTextKept ==
    [][(BlockStep /\ Len(line') >= 3 /\ SubSeq(line', Len(line') - 2, Len(line')) = prefix)
        => \A text \in {SubSeq(line', 1, Len(line') - 3)} :
           \A sub \in {IF prefix = TripleDQ THEN substituteVariables(text, envVars)
                       ELSE [panic |-> FALSE, str |-> text]} :
           \A all \in {multilineVal \o parseEscape(sub.str)} :
             ~sub.panic
             => /\ Stored
                /\ key \in DOMAIN envVars'
                /\ envVars'[key] =
                      IF all # <<>> /\ all[Len(all)] = NL THEN SubSeq(all, 1, Len(all) - 1)
                      ELSE all
      ]_vars

\* C3: a stored single-quoted value is exactly the text between the quotes; a
\* stored double-quoted value is that text after substitution, then escape decoding.
C3_QuoteKinds ==
    [][(LineStep /\ Stored /\ IsAssignment(line'))
        => \A k \in {KeyOf(line')}, r \in {RhsOf(line')} :
            (Quoted(r) /\ Closers(r) # {})
            => \A text \in {Between(r)} :
                /\ k \in DOMAIN envVars'
                /\ r[1] = SQ => envVars'[k] = text
                /\ r[1] = DQ => \A sub \in {substituteVariables(text, envVars)} :
                                    ~sub.panic /\ envVars'[k] = parseEscape(sub.str)
      ]_vars

C3_Witness ==
    /\ line = <<"B", "=", DQ, BSL, "n", DQ>>
    /\ status = "running"
    /\ <<"B">> \in DOMAIN envVars /\ envVars[<<"B">>] = <<NL>>
    /\ <<"A">> \in DOMAIN envVars /\ envVars[<<"A">>] = <<BSL, "n">>

\* C4: a line with "=" whose key text does not match the identifier grammar in
\* full fails with InvalidKey, and every key of a returned mapping matches it.
C4_KeyGrammar ==
    [][/\ (LineStep /\ IsAssignment(line'))
            => \A k \in {KeyOf(line')} : ~IsIdent(k) => status' = "inValidKey"
       /\ (ret'.returned /\ ~ret'.isNil) => \A k \in DOMAIN ret'.map : IsIdent(k)
      ]_vars

\* C5: a value that opens with one quote and has no later quote of that kind
\* without a backslash before it fails with UnterminatedQuote; a parse that ends
\* inside a multi-line block ends with UnterminatedMultiLine.
C5_Unterminated ==
    [][/\ (LineStep /\ IsAssignment(line'))
            => \A k \in {KeyOf(line')}, r \in {RhsOf(line')} :
                (IsIdent(k) /\ Quoted(r) /\ Closers(r) = {})
                => status' = "unterminatedQuote" /\ ret' = ReturnNil
       /\ (status = "running" /\ inMulti /\ inMulti' /\ status' # "running")
            => status' = "unterminatedMultiLine" /\ ret' = ReturnNil
      ]_vars

\* C6: Parse ends in one of two ways, a mapping and no error or a nil mapping and
\* one of the five error kinds, and never by a runtime fault.
C6_Outcomes ==
    /\ status \in {"running", "done"} \cup ErrorKinds
    /\ status = "running" => ~ret.returned
    /\ status = "done" => ret = ReturnMap(envVars)
    /\ status \in ErrorKinds => ret = ReturnNil

\* C8: a reference that a backslash precedes is left as it is by the
\* substitution pass and loses its backslash in escape decoding, so that the
\* stored value holds the text of the reference.
C8_EscapedReferenceKept ==
    [][(LineStep /\ IsAssignment(line'))
        => \A k \in {KeyOf(line')}, r \in {RhsOf(line')} :
            (IsIdent(k) /\ Substitutes(r))
            => \A t \in {ValueText(r)} : \A p \in EscapedRefs(t) :
                 (PlainRefs(t) = {} /\ Positions(t, "$") = {p[1]} /\ Positions(t, BSL) = {p[1] - 1})
                 => /\ Stored
                    /\ k \in DOMAIN envVars'
                    /\ envVars'[k] = SubSeq(t, 1, p[1] - 2) \o SubSeq(t, p[1], Len(t))
      ]_vars

----------------------------------------------------------------------------
(* The properties of Read *)

HasEnvExt(name) == Len(name) >= 4 /\ SubSeq(name, Len(name) - 3, Len(name)) = <<".", "e", "n", "v">>

BadNames == {i \in 1..Len(files) : ~HasEnvExt(files[i].name)}

\* C7 as stated: when a name of the call lacks the extension, Read returns
\* InvalidFileExtension and no file of the call has been opened or parsed.
C7_CheckBeforeAnyFile ==
    (readStatus \notin {"idle", "running"} /\ BadNames # {})
    => /\ readStatus = "inValidFileExtension"
       /\ readRet = ReturnNil
       /\ opened = {} /\ parsed = {}

\* C7 amended: when a name lacks the extension and every earlier name of the
\* call had it and was opened and parsed without error, Read returns
\* InvalidFileExtension with a nil mapping, and neither that file nor a later one
\* has been opened or parsed; the earlier ones have.
C7_CheckBeforeThatFile ==
    (readStatus \notin {"idle", "running"} /\ BadNames # {})
    => LET j == First(BadNames)
       IN  /\ opened \cap j..Len(files) = {} /\ parsed \cap j..Len(files) = {}
           /\ (\A i \in 1..(j - 1) : files[i].exists /\ Parse(files[i].content).status = "done")
              => /\ readStatus = "inValidFileExtension"
                 /\ readRet = ReturnNil
                 /\ opened = 1..(j - 1) /\ parsed = 1..(j - 1)

C7_Witness ==
    /\ Len(files) = 2
    /\ files[1].name = <<"a", ".", "e", "n", "v">> /\ files[1].content # <<>>
    /\ files[2].name = <<"a", ".", "x">>
    /\ readStatus = "inValidFileExtension"
    /\ readRet = ReturnNil
    /\ opened = {1} /\ parsed = {1}

====
